---------------------------- MODULE Spec2Model ----------------------------
(***************************************************************************)
(* A model of the WOO trade-API client (src/src/woo.rs and                 *)
(* src/src/woo_data_structs.rs): the canonical query encoder               *)
(* (generate_sorted_query_string), the signer                              *)
(* (generate_hmac_sha256_signature) and the request builders create_order  *)
(* and cancel_order.                                                       *)
(*                                                                         *)
(* Text is modelled by TLA+ strings over printable ASCII; a byte is its    *)
(* code 32..126.  A u64 is a big-endian sequence of base-10^9 limbs, an    *)
(* i64 of the model is an integer.  A 32-bit word of SHA-256 is the pair   *)
(* <<high 16 bits, low 16 bits>>.                                          *)
(*                                                                         *)
(* Three specifications share the module:                                  *)
(*   SpecEnc   the encoder applied to any serializable struct              *)
(*   SpecSign  encoder and signer applied as in tests::test_hash_order     *)
(*   Spec      one Woo client: create_order, cancel_order, the transport   *)
(*             and the system clock                                        *)
(***************************************************************************)
EXTENDS Integers, Sequences, FiniteSets, TLC

VARIABLES
  \* struct Woo (woo.rs 19-23) and its environment
  base_url,                \* [base, path]: the client's base_url
  api_secret,              \* the client's api_secret
  now,                     \* the system clock, in ms relative to the Unix epoch
  request,                 \* the request the call in progress handed to the transport
  result,                  \* what the last finished call came to
  \* arguments and locals of the encoder and the signer
  body,                    \* the value given to generate_sorted_query_string
  redeclared,              \* the same fields, declared in another order
  timestamp,               \* the signer's timestamp argument
  secret_key,              \* the signer's secret_key argument
  sorted_query_string,     \* outcome of generate_sorted_query_string(body)
  permuted_query_string,   \* outcome of generate_sorted_query_string(redeclared)
  concatted,               \* the signer's local `concatted`
  signature                \* outcome of generate_hmac_sha256_signature

vars == <<base_url, api_secret, now, request, result, body, redeclared, timestamp,
          secret_key, sorted_query_string, permuted_query_string, concatted, signature>>

clientVars == <<base_url, api_secret, now, request, result>>
callVars == <<body, redeclared, timestamp, secret_key, sorted_query_string,
              permuted_query_string, concatted, signature>>

---------------------------------------------------------------------------
(* Bounds of the model.                                                    *)

\* Most fields a struct of SpecEnc declares.
MaxFields == 2
\* Last reading of the system clock in Spec, in ms after the epoch.
MaxNow == 1
\* Largest of the small timestamps SpecSign signs.
MaxSmallTimestamp == 1

---------------------------------------------------------------------------
(* Text: str, char, and the orderings and splits of the standard library.  *)

AsciiLow == " !\"#$%&'()*+,-./0123456789:;<=>?@ABCDEFGHIJKLMNOPQRSTUVWXYZ[\\]^_"
AsciiHigh == "abcdefghijklmnopqrstuvwxyz{|}~"

\* The character of a byte 32..126 (96 is not in the model's alphabet).
Chr(n) == IF n < 96 THEN SubSeq(AsciiLow, n - 31, n - 31) ELSE SubSeq(AsciiHigh, n - 96, n - 96)

\* The byte of a character.
Ord(c) == CHOOSE n \in (32..95) \cup (97..126) : Chr(n) = c

CharAt(s, i) == SubSeq(s, i, i)

\* str::as_bytes
Bytes(s) == [i \in 1..Len(s) |-> Ord(CharAt(s, i))] \o <<>>

\* Ord for str: byte-wise lexicographic, a proper prefix first.
RECURSIVE StrLess(_, _)
StrLess(a, b) ==
  IF b = "" THEN FALSE
  ELSE IF a = "" THEN TRUE
  ELSE IF CharAt(a, 1) = CharAt(b, 1) THEN StrLess(Tail(a), Tail(b))
  ELSE Ord(CharAt(a, 1)) < Ord(CharAt(b, 1))

StrLeq(a, b) == a = b \/ StrLess(a, b)

RECURSIVE Find(_, _, _)
Find(s, c, i) ==
  IF i > Len(s) THEN 0 ELSE IF CharAt(s, i) = c THEN i ELSE Find(s, c, i + 1)

\* str::split(char): the pieces between the separators; "" splits into <<"">>.
RECURSIVE Split(_, _)
Split(s, c) ==
  LET i == Find(s, c, 1)
  IN IF i = 0 THEN <<s>>
     ELSE <<SubSeq(s, 1, i - 1)>> \o Split(SubSeq(s, i + 1, Len(s)), c)

\* [&str]::join(sep)
RECURSIVE Join(_, _)
Join(parts, sep) ==
  IF parts = <<>> THEN ""
  ELSE IF Len(parts) = 1 THEN parts[1]
  ELSE parts[1] \o sep \o Join(Tail(parts), sep)

\* Where a stable sort puts x in a sorted vector: after every element not greater.
RECURSIVE InsertSorted(_, _)
InsertSorted(x, v) ==
  IF v = <<>> THEN <<x>>
  ELSE IF StrLess(x, v[1]) THEN <<x>> \o v
  ELSE <<v[1]>> \o InsertSorted(x, Tail(v))

KeyOf(piece) == LET i == Find(piece, "=", 1) IN IF i = 0 THEN piece ELSE SubSeq(piece, 1, i - 1)

RECURSIVE InsertByKey(_, _)
InsertByKey(x, v) ==
  IF v = <<>> THEN <<x>>
  ELSE IF StrLess(KeyOf(x), KeyOf(v[1])) THEN <<x>> \o v
  ELSE <<v[1]>> \o InsertByKey(x, Tail(v))

\* Mutant of Sort: the pieces ordered by their keys, not as whole strings.
RECURSIVE SortByKey(_)
SortByKey(v) ==
  IF v = <<>> THEN <<>> ELSE InsertByKey(v[Len(v)], SortByKey(SubSeq(v, 1, Len(v) - 1)))

\* Mutant of Sort: the vector is left as it was split.
Unsorted(v) == v

\* Vec<&str>::sort(): the elements in non-decreasing Ord order.
RECURSIVE Sort(_)
Sort(v) == IF v = <<>> THEN <<>> ELSE InsertSorted(v[Len(v)], Sort(SubSeq(v, 1, Len(v) - 1)))

StartsWith(s, p) == Len(s) >= Len(p) /\ SubSeq(s, 1, Len(p)) = p

---------------------------------------------------------------------------
(* Numbers and their Display.                                              *)

Limb == 1000000000

\* Display of an unsigned integer below 2^31.
RECURSIVE Decimal(_)
Decimal(n) == IF n < 10 THEN Chr(48 + n) ELSE Decimal(n \div 10) \o Chr(48 + (n % 10))

RECURSIVE ZeroPad(_, _)
ZeroPad(s, w) == IF Len(s) >= w THEN s ELSE ZeroPad("0" \o s, w)

RECURSIVE LowerLimbs(_)
LowerLimbs(ls) == IF ls = <<>> THEN "" ELSE ZeroPad(Decimal(ls[1]), 9) \o LowerLimbs(Tail(ls))

\* Display of a u64: its decimal digits, no sign, no leading zero.
DecimalU64(u) == Decimal(u[1]) \o LowerLimbs(Tail(u))

\* Display of an i64.
DecimalI64(i) == IF i < 0 THEN "-" \o Decimal(0 - i) ELSE Decimal(i)

\* 2^64 = 18 446744073 709551616
TwoTo64Low == 709551616
TwoTo64Mid == 446744073
TwoTo64High == 18

\* `i as u64` for an i64: the value itself, or 2^64 + i for a negative i.
AsU64(i) ==
  IF i >= Limb THEN <<i \div Limb, i % Limb>>
  ELSE IF i >= 0 THEN <<i>>
  ELSE LET low == TwoTo64Low + i
           borrow == IF low >= 0 THEN 0 ELSE ((0 - low) + Limb - 1) \div Limb
       IN <<TwoTo64High, TwoTo64Mid - borrow, low + borrow * Limb>>

RECURSIVE StripZeros(_)
StripZeros(ds) ==
  IF ds # <<>> /\ ds[Len(ds)] = 0 THEN StripZeros(SubSeq(ds, 1, Len(ds) - 1)) ELSE ds

RECURSIVE Digits(_)
Digits(ds) == IF ds = <<>> THEN "" ELSE Chr(48 + ds[1]) \o Digits(Tail(ds))

\* Display of a finite, non-negative f64 written int.frac: the shortest decimal
\* that reads back as the same value, so 9000.0 prints "9000" and 0.11 "0.11".
DisplayF64(int, frac) ==
  LET f == StripZeros(frac)
  IN IF f = <<>> THEN Decimal(int) ELSE Decimal(int) \o "." \o Digits(f)

---------------------------------------------------------------------------
(* Field values of a serializable struct.                                  *)

None == [t |-> "None"]
Str(s) == [t |-> "String", s |-> s]
U32(n) == [t |-> "u32", n |-> n]
F64(int, frac) == [t |-> "f64", int |-> int, frac |-> frac]
Bool(b) == [t |-> "bool", b |-> b]
\* A value whose Serialize implementation returns an error.
Unserializable == [t |-> "unserializable"]

Field(k, v) == [key |-> k, val |-> v]

\* The scalar string serde_qs writes for a value.
ValueToString(v) ==
  CASE v.t = "String" -> v.s
    [] v.t = "u32" -> Decimal(v.n)
    [] v.t = "f64" -> DisplayF64(v.int, v.frac)
    [] v.t = "bool" -> IF v.b THEN "true" ELSE "false"

---------------------------------------------------------------------------
(* serde_qs and the form encoding.                                         *)

HexUpper(n) == IF n < 10 THEN Chr(48 + n) ELSE Chr(55 + n)

IsAlphanumeric(b) == (48 <= b /\ b <= 57) \/ (65 <= b /\ b <= 90) \/ (97 <= b /\ b <= 122)

\* One character of a key or a value in a query string: alphanumerics and * - . _
\* as they are, a space as +, any other byte as %XX.
EncodeChar(c) ==
  LET b == Ord(c)
  IN IF IsAlphanumeric(b) \/ c \in {"*", "-", ".", "_"} THEN c
     ELSE IF c = " " THEN "+"
     ELSE "%" \o HexUpper(b \div 16) \o HexUpper(b % 16)

RECURSIVE PercentEncode(_)
PercentEncode(s) == IF s = "" THEN "" ELSE EncodeChar(CharAt(s, 1)) \o PercentEncode(Tail(s))

HexValue(c) ==
  LET b == Ord(c)
  IN IF b <= 57 THEN b - 48 ELSE IF b <= 70 THEN b - 55 ELSE b - 87

\* The text a query-string component stands for: + is a space, %XX a byte.
RECURSIVE PercentDecode(_)
PercentDecode(s) ==
  IF s = "" THEN ""
  ELSE IF CharAt(s, 1) = "+" THEN " " \o PercentDecode(Tail(s))
  ELSE IF CharAt(s, 1) = "%" /\ Len(s) >= 3
    THEN Chr(16 * HexValue(CharAt(s, 2)) + HexValue(CharAt(s, 3))) \o PercentDecode(SubSeq(s, 4, Len(s)))
  ELSE CharAt(s, 1) \o PercentDecode(Tail(s))

\* Mutant of SkipSerializingNone: a None is serialized as an empty value.
NoneAsEmpty(fields) ==
  [i \in 1..Len(fields) |->
     IF fields[i].val = [t |-> "None"] THEN [key |-> fields[i].key, val |-> [t |-> "String", s |-> ""]]
     ELSE fields[i]]

\* #[serde_with::skip_serializing_none]: the fields that are serialized.
RECURSIVE SkipSerializingNone(_)
SkipSerializingNone(fields) ==
  IF fields = <<>> THEN <<>>
  ELSE IF fields[1].val = None THEN SkipSerializingNone(Tail(fields))
  ELSE <<fields[1]>> \o SkipSerializingNone(Tail(fields))

\* The key=value pair serde_qs writes for one field.
Segment(f) == PercentEncode(f.key) \o "=" \o PercentEncode(ValueToString(f.val))

RECURSIVE Segments(_)
Segments(fields) ==
  IF fields = <<>> THEN <<>> ELSE <<Segment(fields[1])>> \o Segments(Tail(fields))

Ok(v) == [ok |-> TRUE, val |-> v]
Err(e) == [ok |-> FALSE, val |-> e]

\* serde_qs::to_string(&struct): the serialized fields in declaration order,
\* joined by &; the error of a field that cannot be serialized.
serde_qs_to_string(fields) ==
  LET present == SkipSerializingNone(fields)
  IN IF \E i \in 1..Len(present) : present[i].val = Unserializable
       THEN Err("unsupported value")
       ELSE Ok(Join(Segments(present), "&"))

\* One key=value piece as the pair it stands for.
ParsePair(piece) ==
  LET i == Find(piece, "=", 1)
  IN IF i = 0 THEN <<PercentDecode(piece), "">>
     ELSE <<PercentDecode(SubSeq(piece, 1, i - 1)), PercentDecode(SubSeq(piece, i + 1, Len(piece)))>>

\* The (key, value) pairs a query string or a form body carries.
PairsOf(s) ==
  IF s = "" THEN {} ELSE LET ps == Split(s, "&") IN {ParsePair(ps[i]) : i \in 1..Len(ps)}

\* Mutant of serde_qs_from_str: keys and values are kept as they are written.
FromStrUndecoded(s) ==
  Ok(IF s = "" THEN {}
     ELSE LET ps == Split(s, "&")
          IN {<<KeyOf(ps[i]), SubSeq(ps[i], Len(KeyOf(ps[i])) + 2, Len(ps[i]))>> : i \in 1..Len(ps)})

\* serde_qs::from_str::<BTreeMap<String, String>>: the map of the string's pairs.
serde_qs_from_str(s) == Ok(PairsOf(s))

\* The entries of a BTreeMap in iteration order: ascending keys.
RECURSIVE MapEntries(_)
MapEntries(m) ==
  IF m = {} THEN <<>>
  ELSE LET first == CHOOSE e \in m : \A o \in m : StrLeq(e[1], o[1])
       IN <<first>> \o MapEntries(m \ {first})

RECURSIVE FormPieces(_)
FormPieces(es) ==
  IF es = <<>> THEN <<>>
  ELSE <<PercentEncode(es[1][1]) \o "=" \o PercentEncode(es[1][2])>> \o FormPieces(Tail(es))

\* RequestBuilder::form(&map): the application/x-www-form-urlencoded body.
FormBody(m) == Join(FormPieces(MapEntries(m)), "&")

---------------------------------------------------------------------------
(* The canonical query encoder (woo.rs 122-133).                           *)

Unset == [st |-> "unset", val |-> ""]
Returned(v) == [st |-> "returned", val |-> v]
Panicked(msg) == [st |-> "panicked", val |-> msg]

generate_sorted_query_string(fields) ==
  LET unsorted_query_string == serde_qs_to_string(fields)
  IN IF ~unsorted_query_string.ok
       THEN Panicked("fail to serialize to query string")
       ELSE Returned(Join(Sort(Split(unsorted_query_string.val, "&")), "&"))

---------------------------------------------------------------------------
(* SHA-256 (FIPS 180-4), HMAC (RFC 2104) and hex: the hmac, sha2 and hex   *)
(* crates as the signer uses them (woo.rs 142-145).  A word is             *)
(* <<high 16 bits, low 16 bits>>.                                          *)

Bit(n, i) == (n \div (2 ^ i)) % 2

XorBit(a, b, c) == (a + b + c) % 2
ChBit(e, f, g) == IF e = 1 THEN f ELSE g
MajBit(a, b, c) == IF a + b + c >= 2 THEN 1 ELSE 0

\* The bitwise functions of three 4-bit values.
XorNibble(a, b, c) ==
  XorBit(Bit(a, 0), Bit(b, 0), Bit(c, 0)) + 2 * XorBit(Bit(a, 1), Bit(b, 1), Bit(c, 1)) +
  4 * XorBit(Bit(a, 2), Bit(b, 2), Bit(c, 2)) + 8 * XorBit(Bit(a, 3), Bit(b, 3), Bit(c, 3))
ChNibble(a, b, c) ==
  ChBit(Bit(a, 0), Bit(b, 0), Bit(c, 0)) + 2 * ChBit(Bit(a, 1), Bit(b, 1), Bit(c, 1)) +
  4 * ChBit(Bit(a, 2), Bit(b, 2), Bit(c, 2)) + 8 * ChBit(Bit(a, 3), Bit(b, 3), Bit(c, 3))
MajNibble(a, b, c) ==
  MajBit(Bit(a, 0), Bit(b, 0), Bit(c, 0)) + 2 * MajBit(Bit(a, 1), Bit(b, 1), Bit(c, 1)) +
  4 * MajBit(Bit(a, 2), Bit(b, 2), Bit(c, 2)) + 8 * MajBit(Bit(a, 3), Bit(b, 3), Bit(c, 3))

\* Their tables, indexed by 256 a + 16 b + c + 1.
XorTable ==
  [n \in 1..4096 |-> XorNibble((n - 1) \div 256, ((n - 1) \div 16) % 16, (n - 1) % 16)] \o <<>>
ChTable ==
  [n \in 1..4096 |-> ChNibble((n - 1) \div 256, ((n - 1) \div 16) % 16, (n - 1) % 16)] \o <<>>
MajTable ==
  [n \in 1..4096 |-> MajNibble((n - 1) \div 256, ((n - 1) \div 16) % 16, (n - 1) % 16)] \o <<>>

\* The nibble at weight d of the bitwise function, for three 16-bit values.
Look(t, a, b, c, d) ==
  t[256 * ((a \div d) % 16) + 16 * ((b \div d) % 16) + ((c \div d) % 16) + 1] * d
Half3(t, a, b, c) ==
  Look(t, a, b, c, 1) + Look(t, a, b, c, 16) + Look(t, a, b, c, 256) + Look(t, a, b, c, 4096)
Word3(t, x, y, z) == <<Half3(t, x[1], y[1], z[1]), Half3(t, x[2], y[2], z[2])>>

Xor3(x, y, z) == Word3(XorTable, x, y, z)
Ch(e, f, g) == Word3(ChTable, e, f, g)
Maj(a, b, c) == Word3(MajTable, a, b, c)
XorByte(a, b) == Half3(XorTable, a, b, 0)

\* Half i of the j-th of at most five words, 0 past the last one.
HalfOf(ws, j, i) == IF j <= Len(ws) THEN ws[j][i] ELSE 0

\* The sums of the high halves and of the low halves of at most five words.
SumWords(ws) ==
  <<(HalfOf(ws, 1, 1) + HalfOf(ws, 2, 1)) + ((HalfOf(ws, 3, 1) + HalfOf(ws, 4, 1)) + HalfOf(ws, 5, 1)),
    (HalfOf(ws, 1, 2) + HalfOf(ws, 2, 2)) + ((HalfOf(ws, 3, 2) + HalfOf(ws, 4, 2)) + HalfOf(ws, 5, 2))>>

\* The halves of a word from the sums of halves: the carry of the low half
\* goes to the high half, the carry of the high half is dropped.
Carry(s) == <<(s[1] + (s[2] \div 65536)) % 65536, s[2] % 65536>>

\* Addition modulo 2^32.
WrappingAdd(ws) == Carry(SumWords(ws))

Rotr(x, n) ==
  LET hi == IF n < 16 THEN x[1] ELSE x[2]
      lo == IF n < 16 THEN x[2] ELSE x[1]
      m == 2 ^ (n % 16)
      c == 65536 \div m
  IN <<(hi \div m) + (lo % m) * c, (lo \div m) + (hi % m) * c>>

Shr(x, n) ==
  LET m == 2 ^ n
      c == 65536 \div m
  IN <<x[1] \div m, (x[2] \div m) + (x[1] % m) * c>>

BigSigma0(x) == Xor3(Rotr(x, 2), Rotr(x, 13), Rotr(x, 22))
BigSigma1(x) == Xor3(Rotr(x, 6), Rotr(x, 11), Rotr(x, 25))
SmallSigma0(x) == Xor3(Rotr(x, 7), Rotr(x, 18), Shr(x, 3))
SmallSigma1(x) == Xor3(Rotr(x, 17), Rotr(x, 19), Shr(x, 10))

\* The round constants and the initial hash value.
K256 ==
  <<<<17034, 12184>>, <<28983, 17553>>, <<46528, 64463>>, <<59829, 56229>>,
    <<14678, 49755>>, <<23025, 4593>>, <<37439, 33444>>, <<43804, 24277>>,
    <<55303, 43672>>, <<4739, 23297>>, <<9265, 34238>>, <<21772, 32195>>,
    <<29374, 23924>>, <<32990, 45566>>, <<39900, 1703>>, <<49563, 61812>>,
    <<58523, 27073>>, <<61374, 18310>>, <<4033, 40390>>, <<9228, 41420>>,
    <<11753, 11375>>, <<19060, 33962>>, <<23728, 43484>>, <<30457, 35034>>,
    <<38974, 20818>>, <<43057, 50797>>, <<45059, 10184>>, <<48985, 32711>>,
    <<50912, 3059>>, <<54695, 37191>>, <<1738, 25425>>, <<5161, 10599>>,
    <<10167, 2693>>, <<11803, 8504>>, <<19756, 28156>>, <<21304, 3347>>,
    <<25866, 29524>>, <<30314, 2747>>, <<33218, 51502>>, <<37490, 11397>>,
    <<41663, 59553>>, <<43034, 26187>>, <<49739, 35696>>, <<51052, 20899>>,
    <<53650, 59417>>, <<54937, 1572>>, <<62478, 13701>>, <<4202, 41072>>,
    <<6564, 49430>>, <<7735, 27656>>, <<10056, 30540>>, <<13488, 48309>>,
    <<14620, 3251>>, <<20184, 43594>>, <<23452, 51791>>, <<26670, 28659>>,
    <<29839, 33518>>, <<30885, 25455>>, <<33992, 30740>>, <<36039, 520>>,
    <<37054, 65530>>, <<42064, 27883>>, <<48889, 41975>>, <<50801, 30962>>>>

H256 ==
  <<<<27145, 58983>>, <<47975, 44677>>, <<15470, 62322>>, <<42319, 62778>>,
    <<20750, 21119>>, <<39685, 26764>>, <<8067, 55723>>, <<23520, 52505>>>>

\* Word t of the message schedule, from the words before it.
ScheduleWord(w, t) ==
  WrappingAdd(<<SmallSigma1(w[t - 2]), w[t - 7], SmallSigma0(w[t - 15]), w[t - 16]>>)

\* The message schedule w extended to n words (the first half of the new
\* words is evaluated before the second).
RECURSIVE Schedule(_, _)
Schedule(w, n) ==
  IF Len(w) >= n THEN w
  ELSE IF n = Len(w) + 1 THEN Append(w, ScheduleWord(w, n))
  ELSE Schedule(Schedule(w, (Len(w) + n) \div 2), n)

\* The working variables after a round with the temporaries t1 and t2.
Rotate(s, t1, t2) ==
  <<WrappingAdd(<<t1, t2>>), s[1], s[2], s[3], WrappingAdd(<<s[4], t1>>), s[5], s[6], s[7]>>

\* One round on the working variables s = <<a, b, c, d, e, f, g, h>>.
Round(s, k, w) ==
  Rotate(s, WrappingAdd(<<s[8], BigSigma1(s[5]), Ch(s[5], s[6], s[7]), k, w>>),
            WrappingAdd(<<BigSigma0(s[1]), Maj(s[1], s[2], s[3])>>))

\* Rounds lo..hi on the working variables s (s is evaluated first, so the
\* first half of the rounds is done before the second).
RECURSIVE Rounds(_, _, _, _)
Rounds(s, w, lo, hi) ==
  IF s = <<>> THEN s
  ELSE IF lo = hi THEN Round(s, K256[lo], w[lo])
  ELSE Rounds(Rounds(s, w, lo, (lo + hi) \div 2), w, (lo + hi) \div 2 + 1, hi)

\* The 16 big-endian words of the block that starts after byte o.
BlockWords(bytes, o) ==
  [j \in 1..16 |-> <<bytes[o + 4 * j - 3] * 256 + bytes[o + 4 * j - 2],
                     bytes[o + 4 * j - 1] * 256 + bytes[o + 4 * j]>>] \o <<>>

\* The hash value h with the working variables r added word by word.
AddWords(h, r) ==
  <<WrappingAdd(<<h[1], r[1]>>), WrappingAdd(<<h[2], r[2]>>),
    WrappingAdd(<<h[3], r[3]>>), WrappingAdd(<<h[4], r[4]>>),
    WrappingAdd(<<h[5], r[5]>>), WrappingAdd(<<h[6], r[6]>>),
    WrappingAdd(<<h[7], r[7]>>), WrappingAdd(<<h[8], r[8]>>)>>

\* The hash value after a block of schedule w (w is evaluated first).
CompressWords(h, w) == IF w = <<>> THEN w ELSE AddWords(h, Rounds(h, w, 1, 64))

\* The hash value after block b of bytes, from the hash value h before it.
Compress(h, bytes, b) == CompressWords(h, Schedule(BlockWords(bytes, 64 * b), 64))

\* The hash value after blocks b, b + 1, ... (h is evaluated before each block).
RECURSIVE Blocks(_, _, _)
Blocks(h, bytes, b) ==
  IF 64 * b >= Len(bytes) \/ h = <<>> THEN h ELSE Blocks(Compress(h, bytes, b), bytes, b + 1)

Zeros(n) == [i \in 1..n |-> 0] \o <<>>

\* The 64-bit big-endian number of bits of n bytes (n < 2^21).
BitLength(n) == <<0, 0, 0, 0, 0, (n \div 8192) % 256, (n \div 32) % 256, (8 * n) % 256>>

\* The message, a 1 bit, zeros, and the bit length as a 64-bit big-endian number.
Pad(msg) == msg \o <<128>> \o Zeros((119 - (Len(msg) % 64)) % 64) \o BitLength(Len(msg))

WordBytes(x) == <<x[1] \div 256, x[1] % 256, x[2] \div 256, x[2] % 256>>

\* The 32 bytes of the hash value h.
DigestBytes(h) ==
  IF h = <<>> THEN h ELSE
  (WordBytes(h[1]) \o WordBytes(h[2]) \o WordBytes(h[3]) \o WordBytes(h[4])) \o
  (WordBytes(h[5]) \o WordBytes(h[6]) \o WordBytes(h[7]) \o WordBytes(h[8]))

Sha256(msg) == DigestBytes(Blocks(H256, Pad(msg), 0))

XorPad(k, p) == [i \in 1..Len(k) |-> XorByte(k[i], p)] \o <<>>

\* The key as one block: a key longer than a block is hashed, then zeros.
ZeroExtend(k) == k \o Zeros(64 - Len(k))
KeyBlock(key) == ZeroExtend(IF Len(key) > 64 THEN Sha256(key) ELSE key)

\* H((block xor opad) || inner), for the inner hash (evaluated first).
OuterHash(block, inner) == IF inner = <<>> THEN inner ELSE Sha256(XorPad(block, 92) \o inner)

\* H((block xor opad) || H((block xor ipad) || msg))
HmacOfBlock(block, msg) == OuterHash(block, Sha256(XorPad(block, 54) \o msg))

\* Hmac::<Sha256>::new_from_slice(key), update(msg), finalize().into_bytes()
HmacSha256(key, msg) == HmacOfBlock(KeyBlock(key), msg)

\* Mutant of HexEncode: upper-case digits.
RECURSIVE HexEncodeUpper(_)
HexEncodeUpper(bs) ==
  IF bs = <<>> THEN ""
  ELSE IF Len(bs) = 1 THEN HexUpper(bs[1] \div 16) \o HexUpper(bs[1] % 16)
  ELSE HexEncodeUpper(SubSeq(bs, 1, Len(bs) \div 2))
         \o HexEncodeUpper(SubSeq(bs, Len(bs) \div 2 + 1, Len(bs)))

HexLowerDigit(n) == IF n < 10 THEN Chr(48 + n) ELSE Chr(87 + n)

\* hex::encode: two lower-case digits a byte (the halves are encoded in turn).
RECURSIVE HexEncode(_)
HexEncode(bs) ==
  IF bs = <<>> THEN ""
  ELSE IF Len(bs) = 1 THEN HexLowerDigit(bs[1] \div 16) \o HexLowerDigit(bs[1] % 16)
  ELSE HexEncode(SubSeq(bs, 1, Len(bs) \div 2)) \o HexEncode(SubSeq(bs, Len(bs) \div 2 + 1, Len(bs)))

---------------------------------------------------------------------------
(* The signer (woo.rs 135-146).                                            *)

\* Mutant of SignatureInput: the pipe is left out.
SignatureInputNoPipe(query, ts) == query \o DecimalU64(ts)

\* The signer's local `concatted` (woo.rs 140).
SignatureInput(query, ts) == query \o "|" \o DecimalU64(ts)

generate_hmac_sha256_signature(query, ts, key) ==
  HexEncode(HmacSha256(Bytes(key), Bytes(SignatureInput(query, ts))))

\* The key=value pieces of a canonical query string; the empty string has none.
PiecesOf(s) == IF s = "" THEN <<>> ELSE Split(s, "&")

\* The fields of a struct that hold a value.
Present(s) == {i \in 1..Len(s) : s[i].val # None}

---------------------------------------------------------------------------
(* The request structs (woo_data_structs.rs), as their fields in           *)
(* declaration order.                                                      *)

WooOrder(symbol, client_order_id, order_tag, order_type, order_price, order_quantity, order_amount, reduce_only, visible_quantity, side, position_side) ==
  <<Field("symbol", Str(symbol)), Field("client_order_id", client_order_id),
    Field("order_tag", order_tag), Field("order_type", Str(order_type)),
    Field("order_price", order_price), Field("order_quantity", order_quantity),
    Field("order_amount", order_amount), Field("reduce_only", reduce_only),
    Field("visible_quantity", visible_quantity), Field("side", Str(side)),
    Field("position_side", position_side)>>

CancelOrder(order_id, symbol) ==
  <<Field("order_id", U32(order_id)), Field("symbol", Str(symbol))>>

GetOrder(symbol, side, size, order_type, order_tag, realized_pnl, status, start_t, end_t, page) ==
  <<Field("symbol", symbol), Field("side", side), Field("size", size),
    Field("order_type", order_type), Field("order_tag", order_tag),
    Field("realized_pnl", realized_pnl), Field("status", status),
    Field("start_t", start_t), Field("end_t", end_t), Field("page", page)>>

\* The order of tests::test_hash_order.
HashOrder ==
  WooOrder("SPOT_BTC_USDT", None, None, "LIMIT", F64(9000, <<0>>), F64(0, <<1, 1>>),
           None, None, None, "BUY", None)

\* The order of tests::send_order and tests::cancel_order.
SendOrder ==
  WooOrder("SPOT_ULP_USDT", None, None, "LIMIT", F64(1, <<0>>), F64(2, <<0>>),
           None, None, None, "BUY", None)

\* An order with every kind of optional field set.
TaggedOrder ==
  WooOrder("SPOT_ULP_USDT", U32(7), Str("a b&c=d"), "MARKET", None, None,
           F64(10, <<5, 0>>), Bool(TRUE), None, "SELL", Str("LONG"))

\* A cancellation as in tests::cancel_order.
CancelSent == CancelOrder(7, "SPOT_ULP_USDT")

\* A query with no field set.
GetAllOrders == GetOrder(None, None, None, None, None, None, None, None, None, None)

---------------------------------------------------------------------------
(* SpecEnc: generate_sorted_query_string applied to any struct P.          *)

FieldNames == {"a", "a1", "b"}
FieldValues ==
  {None, Str("x"), Str("x&a1=y z"), U32(10), F64(9000, <<0>>),
   Unserializable}

\* The structs of n fields: distinct names, in every declaration order.
RECURSIVE Structs(_)
Structs(n) ==
  IF n = 0 THEN {<<>>}
  ELSE {Append(s, Field(k, v)) :
          s \in {p \in Structs(n - 1) : Len(p) = n - 1}, k \in FieldNames, v \in FieldValues}

DistinctNames(s) == \A i, j \in 1..Len(s) : s[i].key = s[j].key => i = j

Bodies == {s \in UNION {Structs(n) : n \in 0..MaxFields} : DistinctNames(s)}

\* The declaration orders of the fields of s.
Redeclarations(s) ==
  {p \in Bodies : Len(p) = Len(s) /\ {p[i] : i \in 1..Len(p)} = {s[i] : i \in 1..Len(s)}}

IdleClient ==
  /\ base_url = [base |-> "", path |-> ""]
  /\ api_secret = ""
  /\ now = 0
  /\ request = None
  /\ result = Unset

InitEnc ==
  /\ IdleClient
  /\ body \in Bodies
  /\ redeclared \in Redeclarations(body)
  /\ timestamp = <<0>>
  /\ secret_key = ""
  /\ sorted_query_string = Unset
  /\ permuted_query_string = Unset
  /\ concatted = ""
  /\ signature = ""

\* A call generate_sorted_query_string(&body).
Encode ==
  /\ sorted_query_string = Unset
  /\ sorted_query_string' = generate_sorted_query_string(body)
  /\ UNCHANGED <<clientVars, body, redeclared, timestamp, secret_key,
                 permuted_query_string, concatted, signature>>

\* A call generate_sorted_query_string(&redeclared).
EncodeRedeclared ==
  /\ permuted_query_string = Unset
  /\ permuted_query_string' = generate_sorted_query_string(redeclared)
  /\ UNCHANGED <<clientVars, body, redeclared, timestamp, secret_key,
                 sorted_query_string, concatted, signature>>

NextEnc == Encode \/ EncodeRedeclared

SpecEnc == InitEnc /\ [][NextEnc]_vars

---------------------------------------------------------------------------
(* SpecSign: the encoder and the signer applied to a request, a timestamp  *)
(* and a secret, as tests::test_hash_order applies them (woo.rs 295-301).  *)

HashTimestamp == <<1578, 565539808>>
HashSecret == "QHKRXHPAW1MC9YGZMAT8YDJG2HPR"
HashSignature == "20da0852f73b20da0208c7e627975a59ff072379883d8457d03104651032033d"

U64Max == <<18, 446744073, 709551615>>

SignedBodies == {HashOrder, SendOrder, TaggedOrder, CancelSent, GetAllOrders}
Timestamps == {AsU64(t) : t \in 0..MaxSmallTimestamp} \cup {<<1, 0>>, HashTimestamp, U64Max}
SecretKeys ==
  {HashSecret, "",
   "a-secret-that-is-longer-than-one-block-of-SHA-256-which-is-64-bytes-long"}

InitSign ==
  /\ IdleClient
  /\ body \in SignedBodies
  /\ redeclared = body
  /\ timestamp \in Timestamps
  /\ secret_key \in SecretKeys
  /\ sorted_query_string = Unset
  /\ permuted_query_string = Unset
  /\ concatted = ""
  /\ signature = ""

\* generate_hmac_sha256_signature(generate_sorted_query_string(&body), timestamp, secret_key)
Sign ==
  /\ sorted_query_string = Unset
  /\ sorted_query_string' = generate_sorted_query_string(body)
  /\ IF sorted_query_string'.st = "returned"
       THEN /\ concatted' = SignatureInput(sorted_query_string'.val, timestamp)
            /\ signature' = generate_hmac_sha256_signature(sorted_query_string'.val, timestamp, secret_key)
       ELSE UNCHANGED <<concatted, signature>>
  /\ UNCHANGED <<clientVars, body, redeclared, timestamp, secret_key, permuted_query_string>>

NextSign == Sign

SpecSign == InitSign /\ [][NextSign]_vars

---------------------------------------------------------------------------
(* Spec: one Woo client (woo.rs 19-120), its transport and the clock.      *)

Environments == {"Production", "Staging"}

\* The variables of the .env file that Woo::new reads for the secret.
DotEnv ==
  [WOO_API_SECRET |-> "QHKRXHPAW1MC9YGZMAT8YDJG2HPR", WOO_API_SECRET_STAGING |-> "staging secret"]

\* Woo::new(environment): the base URL and the secret of the environment.
new(environment) ==
  IF environment = "Production"
    THEN [base_url |-> [base |-> "WOO_API_BASE_URL", path |-> "/"],
          api_secret |-> DotEnv.WOO_API_SECRET]
    ELSE [base_url |-> [base |-> "WOO_API_BASE_URL_STAGING", path |-> "/"],
          api_secret |-> DotEnv.WOO_API_SECRET_STAGING]

\* Url::set_path: the path starts with a slash.
set_path(url, path) ==
  [url EXCEPT !.path = IF StartsWith(path, "/") THEN path ELSE "/" \o path]

\* Mutant of UtcNowMillis: a clock before the epoch is read as it is.
UtcNowMillisUnchecked(clock) == Returned(clock)

\* chrono::Utc::now().timestamp_millis(): Utc::now() panics when the system
\* time is before the Unix epoch.
UtcNowMillis(clock) ==
  IF clock < 0 THEN [st |-> "panicked", val |-> "system time before Unix epoch"]
  ELSE Returned(clock)

\* The request the builder hands to the transport; `of` is the value the call
\* was given and is not transmitted.
Request(method, url, millis, hmac, form, of) ==
  [method |-> method, url |-> url, x_api_timestamp |-> DecimalI64(millis),
   x_api_signature |-> hmac, body |-> FormBody(form), of |-> of]

Orders == {HashOrder, SendOrder, TaggedOrder}
Cancels == {CancelSent, CancelOrder(2147483647, "SPOT_BTC_USDT")}

IdleCalls ==
  /\ body = <<>>
  /\ redeclared = <<>>
  /\ timestamp = <<0>>
  /\ secret_key = ""
  /\ sorted_query_string = Unset
  /\ permuted_query_string = Unset
  /\ concatted = ""
  /\ signature = ""

Init ==
  /\ \E environment \in Environments :
       /\ base_url = new(environment).base_url
       /\ api_secret = new(environment).api_secret
  /\ now \in {-1, 0}
  /\ request = None
  /\ result = Unset
  /\ IdleCalls

\* Mutant of create_order: the secret is moved out of the client, not cloned.
create_order_taking(order) ==
  /\ request = None
  /\ base_url' = set_path(base_url, "v1/order")
  /\ api_secret' = ""
  /\ request' = None
  /\ result' = UtcNowMillis(now)
  /\ UNCHANGED <<now, callVars>>

\* Woo::create_order, up to the request it sends.
create_order(order) ==
  /\ request = None
  /\ base_url' = set_path(base_url, "v1/order")
  /\ LET now_millis == UtcNowMillis(now)
         url_encoded == serde_qs_to_string(order)
         deserialized == serde_qs_from_str(url_encoded.val)
         sorted == generate_sorted_query_string(order)
     IN IF now_millis.st = "panicked" THEN request' = None /\ result' = now_millis
        ELSE IF ~url_encoded.ok \/ ~deserialized.ok
          THEN request' = None /\ result' = Returned("Err(serde_qs::Error)")
        ELSE IF sorted.st = "panicked" THEN request' = None /\ result' = sorted
        ELSE /\ request' =
                  Request("POST", base_url', now_millis.val,
                          generate_hmac_sha256_signature(sorted.val, AsU64(now_millis.val), api_secret),
                          deserialized.val, order)
             /\ UNCHANGED result
  /\ UNCHANGED <<api_secret, now, callVars>>

\* Woo::cancel_order, up to the request it sends.
cancel_order(cancel) ==
  /\ request = None
  /\ base_url' = set_path(base_url, "v1/order")
  /\ LET now_millis == UtcNowMillis(now)
         url_encoded == serde_qs_to_string(cancel)
         deserialized == serde_qs_from_str(url_encoded.val)
         sorted == generate_sorted_query_string(cancel)
     IN IF now_millis.st = "panicked" THEN request' = None /\ result' = now_millis
        ELSE IF ~url_encoded.ok \/ ~deserialized.ok
          THEN request' = None /\ result' = Returned("Err(serde_qs::Error)")
        ELSE IF sorted.st = "panicked" THEN request' = None /\ result' = sorted
        ELSE /\ request' =
                  Request("DELETE", base_url', now_millis.val,
                          generate_hmac_sha256_signature(sorted.val, AsU64(now_millis.val), api_secret),
                          deserialized.val, cancel)
             /\ UNCHANGED result
  /\ UNCHANGED <<api_secret, now, callVars>>

\* req_builder.send().await?.json().await?: the call ends with the response
\* or with the error of the transport.
Respond ==
  /\ request # None
  /\ \E outcome \in {"Ok(response)", "Err(reqwest::Error)"} : result' = Returned(outcome)
  /\ request' = None
  /\ UNCHANGED <<base_url, api_secret, now, callVars>>

\* A millisecond passes on the system clock.
Tick ==
  /\ now < MaxNow
  /\ now' = now + 1
  /\ UNCHANGED <<base_url, api_secret, request, result, callVars>>

Next ==
  \/ \E order \in Orders : create_order(order)
  \/ \E cancel \in Cancels : cancel_order(cancel)
  \/ Respond
  \/ Tick

Spec == Init /\ [][Next]_vars

---------------------------------------------------------------------------
(* Claims about the signer, checked under SpecSign.                        *)

IsDigit(c) == c \in {"0", "1", "2", "3", "4", "5", "6", "7", "8", "9"}

RECURSIVE DigitsValue(_)
DigitsValue(s) == IF s = "" THEN 0 ELSE 10 * DigitsValue(SubSeq(s, 1, Len(s) - 1)) + (Ord(CharAt(s, Len(s))) - 48)

\* The limbs of a decimal numeral.
RECURSIVE NumeralLimbs(_)
NumeralLimbs(s) ==
  IF Len(s) <= 9 THEN <<DigitsValue(s)>>
  ELSE NumeralLimbs(SubSeq(s, 1, Len(s) - 9)) \o <<DigitsValue(SubSeq(s, Len(s) - 8, Len(s)))>>

\* s is the decimal form of the u64 u: digits only, no leading zero, of value u.
IsDecimalOf(s, u) ==
  /\ s # ""
  /\ \A i \in 1..Len(s) : IsDigit(CharAt(s, i))
  /\ (Len(s) > 1 => CharAt(s, 1) # "0")
  /\ NumeralLimbs(s) = u

\* C4: a request with no present field is encoded to the empty string, and the
\* signature input built from it is a pipe followed by the decimal timestamp.
C4_EmptyRequest ==
  (sorted_query_string # Unset /\ Present(body) = {}) =>
    /\ sorted_query_string = Returned("")
    /\ Len(concatted) > 1
    /\ CharAt(concatted, 1) = "|"
    /\ IsDecimalOf(Tail(concatted), timestamp)

\* C4's case: the empty query signed with the timestamp of the known vector.
C4_Witness ==
  /\ body = GetAllOrders
  /\ timestamp = HashTimestamp
  /\ sorted_query_string = Returned("")
  /\ concatted = "|1578565539808"
  /\ signature # ""

IsLowerHex(s) ==
  \A i \in 1..Len(s) :
    CharAt(s, i) \in {"0", "1", "2", "3", "4", "5", "6", "7", "8", "9", "a", "b", "c", "d", "e", "f"}

\* C5: the signature is the 64 lower-case hex digits of HMAC-SHA256, keyed by
\* the bytes of the secret, over the bytes of query | decimal timestamp; the
\* known vector of tests::test_hash_order yields the known signature.
C5_Signature ==
  signature # "" =>
    /\ Len(signature) = 64
    /\ IsLowerHex(signature)
    /\ LET pipe == Len(sorted_query_string.val) + 1
       IN /\ SubSeq(concatted, 1, pipe - 1) = sorted_query_string.val
          /\ CharAt(concatted, pipe) = "|"
          /\ IsDecimalOf(SubSeq(concatted, pipe + 1, Len(concatted)), timestamp)
    /\ signature = HexEncode(HmacSha256(Bytes(secret_key), Bytes(concatted)))
    /\ (body = HashOrder /\ timestamp = HashTimestamp /\ secret_key = HashSecret) =>
         signature = HashSignature

\* C5's case: the known vector, signed.
C5_Witness ==
  /\ body = HashOrder /\ timestamp = HashTimestamp /\ secret_key = HashSecret
  /\ concatted = "order_price=9000&order_quantity=0.11&order_type=LIMIT&side=BUY&symbol=SPOT_BTC_USDT|1578565539808"
  /\ signature = HashSignature

---------------------------------------------------------------------------
(* Claims about the encoder, checked under SpecEnc.                        *)

\* C1: the string the encoder returns consists of exactly the serialized
\* key=value segments of the request's present fields, joined by &, in
\* non-decreasing byte-wise order of the whole segments.
C1_SortedSegments ==
  sorted_query_string.st = "returned" =>
    LET out == PiecesOf(sorted_query_string.val)
    IN /\ Len(out) = Cardinality(Present(body))
       /\ {out[i] : i \in 1..Len(out)} = {Segment(body[i]) : i \in Present(body)}
       /\ \A i, j \in 1..Len(out) : i < j => StrLeq(out[i], out[j])
       /\ sorted_query_string.val = Join(out, "&")

\* C1's case: fields a and a1, where the segment of a1 precedes the segment of a.
C1_Witness ==
  /\ body = <<Field("a", Str("x")), Field("a1", U32(10))>>
  /\ sorted_query_string = Returned("a1=10&a=x")

\* C2: two structs with the same fields and values, declared in different
\* orders, are encoded to the identical string.
C2_OrderIndependent ==
  (sorted_query_string # Unset /\ permuted_query_string # Unset) =>
    sorted_query_string = permuted_query_string

\* C2's case: two present fields in both declaration orders, both encoded.
C2_Witness ==
  /\ Len(body) = 2 /\ Present(body) = {1, 2}
  /\ redeclared = <<body[2], body[1]>>
  /\ sorted_query_string.st = "returned"
  /\ permuted_query_string.st = "returned"

\* C3: a field that is None contributes no segment (neither key= nor a null),
\* and every field with a value contributes exactly one segment.
C3_AbsentFieldsDropped ==
  sorted_query_string.st = "returned" =>
    LET out == PiecesOf(sorted_query_string.val)
        segs(i) == {j \in 1..Len(out) : StartsWith(out[j], PercentEncode(body[i].key) \o "=")}
    IN /\ \A i \in 1..Len(body) :
            Cardinality(segs(i)) = IF body[i].val = None THEN 0 ELSE 1
       /\ Len(out) = Cardinality(Present(body))

\* C3's case: a struct with one None and one value, encoded.
C3_Witness ==
  /\ body = <<Field("a", None), Field("b", Str("x&a1=y z"))>>
  /\ sorted_query_string = Returned("b=x%26a1%3Dy+z")

\* C9 as claimed: given a field value that is no scalar string, the encoder
\* hands its caller a failure value.
C9_EncodingErrorValue ==
  (sorted_query_string # Unset /\ \E i \in 1..Len(body) : body[i].val = Unserializable) =>
    sorted_query_string.st = "failed"

---------------------------------------------------------------------------
(* Claims about the client, checked under Spec.                            *)

\* C7: in every request create_order or cancel_order sends, the (field, value)
\* pairs of the form body are the pairs of the canonical query string that
\* was signed, and both carry each field once.
C7_BodyCarriesSignedPairs ==
  request # None =>
    LET signed == generate_sorted_query_string(request.of).val
    IN /\ PairsOf(request.body) = PairsOf(signed)
       /\ \A p, q \in PairsOf(request.body) : p[1] = q[1] => p = q
       /\ Cardinality(PairsOf(request.body)) = Len(Split(request.body, "&"))
       /\ Cardinality(PairsOf(signed)) = Cardinality(Present(request.of))

\* C7's case: an order whose tag needs escaping is in flight, its tag in
\* the body as it was given.
C7_Witness ==
  /\ request # None
  /\ request.of = TaggedOrder
  /\ request.method = "POST"
  /\ <<"order_tag", "a b&c=d">> \in PairsOf(request.body)
  /\ <<"order_amount", "10.5">> \in PairsOf(request.body)

\* C8: the x-api-timestamp header of every request sent is the decimal form of
\* a number, and the x-api-signature header is the signature of the request
\* description, that number and the client's secret, computed in isolation.
C8_HeadersMatchIsolatedSignature ==
  request # None =>
    /\ request.x_api_timestamp # ""
    /\ \A i \in 1..Len(request.x_api_timestamp) : IsDigit(CharAt(request.x_api_timestamp, i))
    /\ request.x_api_signature =
         generate_hmac_sha256_signature(generate_sorted_query_string(request.of).val,
                                        NumeralLimbs(request.x_api_timestamp), api_secret)

\* C8's case: a cancellation in flight, stamped one millisecond after the
\* epoch, after the clock had been before the epoch.
C8_Witness ==
  /\ request # None
  /\ request.method = "DELETE"
  /\ request.of = CancelSent
  /\ request.x_api_timestamp = "1"
  /\ Len(request.x_api_signature) = 64
  /\ result.st = "panicked"

\* C10: whatever calls were made and however they ended, the client's secret
\* is the one Woo::new loaded for the client's environment.
C10_SecretReadOnly ==
  \E environment \in Environments :
    /\ base_url.base = new(environment).base_url.base
    /\ api_secret = new(environment).api_secret

\* C10's case: a call has failed in the transport and the next request is
\* in flight, signed with the secret of the staging environment.
C10_Witness ==
  /\ result = Returned("Err(reqwest::Error)")
  /\ request # None
  /\ base_url = [base |-> "WOO_API_BASE_URL_STAGING", path |-> "/v1/order"]
  /\ api_secret = DotEnv.WOO_API_SECRET_STAGING
  /\ request.x_api_signature =
       generate_hmac_sha256_signature(generate_sorted_query_string(request.of).val,
                                      NumeralLimbs(request.x_api_timestamp), "staging secret")

=============================================================================
